---- MODULE Spec2Model ----
(***************************************************************************)
(* Model of generate_resume.py (ResumeAdapter): import-time startup, the   *)
(* click command main() and the helpers it calls.                          *)
(*                                                                         *)
(* Text is a sequence of one-character strings.  The backquote U+0060      *)
(* cannot be written inside a TLA+ string, so that one character is        *)
(* written "bq".  Python values are tagged records [t, v]:                 *)
(*   None  [t |-> "null"]   int  [t |-> "num"]   str  [t |-> "str"]        *)
(*   list  [t |-> "arr"]    dict [t |-> "obj"] (sequence of <<key, value>> *)
(*   pairs in insertion order, keys unique)                                *)
(*   datetime.date (what yaml.safe_load gives for 2020-01-01) [t|->"date"] *)
(***************************************************************************)
EXTENDS Integers, Sequences, FiniteSets, TLC

\* ------------------------------------------------------------ characters
BQ == "bq"
SP == " "
NL == "\n"
FF == "\f"
QT == "\""

\* str.strip() with no argument removes every character str.isspace() holds
\* of; json's WHITESPACE is only space, tab, newline and carriage return.
PyWhitespace == {SP, NL, FF}
JsonWhitespace == {SP, NL}
Digits == {"1", "2", "3"}

DigitVal(c) == CASE c = "1" -> 1 [] c = "2" -> 2 [] c = "3" -> 3 [] OTHER -> 0

\* ------------------------------------------------------------ str methods
StartsWith(s, p) == Len(s) >= Len(p) /\ SubSeq(s, 1, Len(p)) = p

EndsWith(s, p) == Len(s) >= Len(p) /\ SubSeq(s, Len(s) - Len(p) + 1, Len(s)) = p

\* s[n:]
SliceFrom(s, n) == SubSeq(s, n + 1, Len(s))

\* s[:-n], n > 0
SliceDropLast(s, n) == SubSeq(s, 1, Len(s) - n)

RECURSIVE LStrip(_)
LStrip(s) == IF s # <<>> /\ Head(s) \in PyWhitespace THEN LStrip(Tail(s)) ELSE s

RECURSIVE RStrip(_)
RStrip(s) ==
    IF s # <<>> /\ s[Len(s)] \in PyWhitespace THEN RStrip(SliceDropLast(s, 1)) ELSE s

Strip(s) == RStrip(LStrip(s))

\* str.replace(old, new): every non-overlapping occurrence, left to right
RECURSIVE Replace(_, _, _)
Replace(s, old, new) ==
    IF s = <<>> THEN <<>>
    ELSE IF StartsWith(s, old) THEN new \o Replace(SliceFrom(s, Len(old)), old, new)
    ELSE <<Head(s)>> \o Replace(Tail(s), old, new)

\* ------------------------------------------------------------ values
None == [t |-> "null", v |-> 0]
Num(n) == [t |-> "num", v |-> n]
Str(s) == [t |-> "str", v |-> s]
Arr(a) == [t |-> "arr", v |-> a]
Obj(o) == [t |-> "obj", v |-> o]
Date == [t |-> "date", v |-> 0]

IsStr(x) == x.t = "str"
IsDict(x) == x.t = "obj"

\* dict.get(key, default)
RECURSIVE PairsGet(_, _, _)
PairsGet(pairs, key, default) ==
    IF pairs = <<>> THEN default
    ELSE IF Head(pairs)[1] = key THEN Head(pairs)[2]
    ELSE PairsGet(Tail(pairs), key, default)

DictGet(d, key, default) == PairsGet(d.v, key, default)

HasKey(d, key) == \E i \in 1..Len(d.v) : d.v[i][1] = key

\* d[key] = val: a new key goes last, an existing key keeps its position
DictSet(pairs, key, val) ==
    IF \E i \in 1..Len(pairs) : pairs[i][1] = key
    THEN [i \in 1..Len(pairs) |-> IF pairs[i][1] = key THEN <<key, val>> ELSE pairs[i]]
    ELSE Append(pairs, <<key, val>>)

\* ------------------------------------------------------------ json.loads
\* A parse result: ok, the value, and the index after the value.
ParseErr == [ok |-> FALSE, val |-> None, next |-> 0]
ParseOk(val, next) == [ok |-> TRUE, val |-> val, next |-> next]

RECURSIVE SkipWs(_, _)
SkipWs(s, i) == IF i <= Len(s) /\ s[i] \in JsonWhitespace THEN SkipWs(s, i + 1) ELSE i

\* the characters of a string literal from i up to the closing quote;
\* control characters are rejected (strict mode)
RECURSIVE ScanString(_, _, _)
ScanString(s, i, acc) ==
    IF i > Len(s) THEN ParseErr
    ELSE IF s[i] = QT THEN ParseOk(Str(acc), i + 1)
    ELSE IF s[i] \in {NL, FF} THEN ParseErr
    ELSE ScanString(s, i + 1, Append(acc, s[i]))

RECURSIVE ScanNumber(_, _, _)
ScanNumber(s, i, acc) ==
    IF i <= Len(s) /\ s[i] \in Digits
    THEN ScanNumber(s, i + 1, 10 * acc + DigitVal(s[i]))
    ELSE ParseOk(Num(acc), i)

LitNull == <<"n", "u", "l", "l">>

RECURSIVE ParseValue(_, _)
RECURSIVE ParseElems(_, _, _)
RECURSIVE ParseMembers(_, _, _)

\* after "[" and whitespace, at the start of an element
ParseElems(s, i, acc) ==
    LET r == ParseValue(s, i)
        j == SkipWs(s, r.next)
    IN  IF ~r.ok \/ j > Len(s) THEN ParseErr
        ELSE IF s[j] = "," THEN ParseElems(s, SkipWs(s, j + 1), Append(acc, r.val))
        ELSE IF s[j] = "]" THEN ParseOk(Arr(Append(acc, r.val)), j + 1)
        ELSE ParseErr

\* after "{" or "," and whitespace, at the opening quote of a key
ParseMembers(s, i, acc) ==
    IF i > Len(s) \/ s[i] # QT THEN ParseErr
    ELSE
    LET k == ScanString(s, i + 1, <<>>)
        c == SkipWs(s, k.next)
    IN  IF ~k.ok \/ c > Len(s) \/ s[c] # ":" THEN ParseErr
        ELSE
        LET r == ParseValue(s, SkipWs(s, c + 1))
            j == SkipWs(s, r.next)
        IN  IF ~r.ok \/ j > Len(s) THEN ParseErr
            ELSE IF s[j] = ","
                 THEN ParseMembers(s, SkipWs(s, j + 1), DictSet(acc, k.val.v, r.val))
            ELSE IF s[j] = "}"
                 THEN ParseOk(Obj(DictSet(acc, k.val.v, r.val)), j + 1)
            ELSE ParseErr

ParseValue(s, i) ==
    IF i > Len(s) THEN ParseErr
    ELSE IF s[i] = QT THEN ScanString(s, i + 1, <<>>)
    ELSE IF s[i] = "{" THEN
        LET j == SkipWs(s, i + 1)
        IN  IF j <= Len(s) /\ s[j] = "}" THEN ParseOk(Obj(<<>>), j + 1)
            ELSE ParseMembers(s, j, <<>>)
    ELSE IF s[i] = "[" THEN
        LET j == SkipWs(s, i + 1)
        IN  IF j <= Len(s) /\ s[j] = "]" THEN ParseOk(Arr(<<>>), j + 1)
            ELSE ParseElems(s, j, <<>>)
    ELSE IF s[i] \in Digits THEN ScanNumber(s, i, 0)
    ELSE IF StartsWith(SliceFrom(s, i - 1), LitNull) THEN ParseOk(None, i + 4)
    ELSE ParseErr

\* json.loads(s): [ok, val]; ok = FALSE stands for json.JSONDecodeError
JsonLoads(s) ==
    LET r == ParseValue(s, SkipWs(s, 1))
    IN  IF r.ok /\ SkipWs(s, r.next) = Len(s) + 1
        THEN [ok |-> TRUE, val |-> r.val]
        ELSE [ok |-> FALSE, val |-> None]

\* ------------------------------------------------------------ clean_response
FenceOpen == <<BQ, BQ, BQ, "j", "s", "o", "n">>
FenceClose == <<BQ, BQ, BQ>>

\* clean_response with the opening marker cut one character short
clean_response_ShortCut(response) ==
    IF IsStr(response)
    THEN LET s1 == Strip(response.v)
             s2 == IF StartsWith(s1, FenceOpen) THEN SliceFrom(s1, 6) ELSE s1
             s3 == IF EndsWith(s2, FenceClose) THEN SliceDropLast(s2, 3) ELSE s2
         IN  JsonLoads(s3)
    ELSE [ok |-> TRUE, val |-> response]

\* [ok, val]; ok = FALSE stands for the json.JSONDecodeError json.loads raises
clean_response(response) ==
    IF IsStr(response)
    THEN LET s1 == Strip(response.v)
             s2 == IF StartsWith(s1, FenceOpen) THEN SliceFrom(s1, 7) ELSE s1
             s3 == IF EndsWith(s2, FenceClose) THEN SliceDropLast(s2, 3) ELSE s2
         IN  JsonLoads(s3)
    ELSE [ok |-> TRUE, val |-> response]

\* ------------------------------------------------------------ resume keys
K_name == <<"n", "a", "m", "e">>
K_contact == <<"c", "o", "n", "t", "a", "c", "t">>
K_professional_summary ==
    <<"p", "r", "o", "f", "e", "s", "s", "i", "o", "n", "a", "l", "_", "s", "u", "m", "m", "a", "r", "y">>
K_skills == <<"s", "k", "i", "l", "l", "s">>
K_experience == <<"e", "x", "p", "e", "r", "i", "e", "n", "c", "e">>
K_education == <<"e", "d", "u", "c", "a", "t", "i", "o", "n">>
K_projects == <<"p", "r", "o", "j", "e", "c", "t", "s">>
K_extra == <<"x">>

\* ------------------------------------------------------------ prompt building
\* json.dumps raises TypeError on a value the encoder has no rule for
RECURSIVE JsonSerializable(_)
JsonSerializable(x) ==
    CASE x.t = "date" -> FALSE
      [] x.t = "arr" -> \A i \in 1..Len(x.v) : JsonSerializable(x.v[i])
      [] x.t = "obj" -> \A i \in 1..Len(x.v) : JsonSerializable(x.v[i][2])
      [] OTHER -> TRUE

\* The text json.dumps(x, indent=n) returns is kept as the value it encodes:
\* the program only tests it for emptiness and pastes it into the prompt.
JsonDumps(x, indent) == [t |-> "jsontext", v |-> <<indent, x>>]

get_instructions == [t |-> "instructions", v |-> 0]

\* The f-string, kept as the parts it interpolates.  [ok, val]; ok = FALSE is
\* the TypeError of json.dumps(user_profile, indent=2).
generate_prompt(profile_value, job, structure) ==
    IF JsonSerializable(profile_value)
    THEN [ok |-> TRUE,
          val |-> [t |-> "prompt",
                   v |-> <<JsonDumps(profile_value, 2), job, structure, get_instructions>>]]
    ELSE [ok |-> FALSE, val |-> None]

\* get_json_structure without the "structure is None" return
get_json_structure_NoNoneReturn(file, name) ==
    IF ~file.exists THEN [ok |-> FALSE, val |-> None]
    ELSE LET structures == JsonLoads(file.text)
         IN  IF ~structures.ok THEN [ok |-> FALSE, val |-> None]
             ELSE IF ~IsDict(structures.val) THEN [ok |-> FALSE, val |-> None]
             ELSE [ok |-> TRUE, val |-> JsonDumps(DictGet(structures.val, name, None), 4)]

\* A file on disk: [exists, text].  [ok, val]; val = None is the missing
\* result; ok = FALSE is FileNotFoundError, ValueError or Exception.
get_json_structure(file, name) ==
    IF ~file.exists THEN [ok |-> FALSE, val |-> None]
    ELSE LET structures == JsonLoads(file.text)
         IN  IF ~structures.ok THEN [ok |-> FALSE, val |-> None]
             ELSE IF ~IsDict(structures.val) THEN [ok |-> FALSE, val |-> None]
             ELSE LET structure == DictGet(structures.val, name, None)
                  IN  IF structure = None THEN [ok |-> TRUE, val |-> None]
                      ELSE [ok |-> TRUE, val |-> JsonDumps(structure, 4)]

\* ------------------------------------------------------------ input loader
ExtYaml == <<".", "y", "a", "m", "l">>
ExtYml == <<".", "y", "m", "l">>

YamlNameDoc == <<"n", "a", "m", "e", ":", SP, "a">>
YamlDateDoc == <<"d", ":", SP, "2", "0", "0", "1", "-", "0", "1", "-", "0", "1">>
YamlListDoc == <<"-", SP, "1">>
YamlBadDoc == <<"{">>

\* yaml.safe_load on the documents the model feeds it
YamlSafeLoad(text) ==
    CASE text = YamlNameDoc -> [ok |-> TRUE, val |-> Obj(<< <<K_name, Str(<<"a">>)>> >>)]
      [] text = YamlDateDoc -> [ok |-> TRUE, val |-> Obj(<< <<<<"d">>, Date>> >>)]
      [] text = YamlListDoc -> [ok |-> TRUE, val |-> Arr(<<Num(1)>>)]
      [] text = <<>> -> [ok |-> TRUE, val |-> None]
      [] OTHER -> [ok |-> FALSE, val |-> None]

\* load_user_profile answering an empty profile where it should raise
load_user_profile_Absorbing(file) ==
    IF ~file.exists THEN [ok |-> TRUE, val |-> Obj(<<>>)]
    ELSE IF EndsWith(file.path, ExtYaml) \/ EndsWith(file.path, ExtYml)
         THEN (IF YamlSafeLoad(file.text).ok THEN YamlSafeLoad(file.text)
               ELSE [ok |-> TRUE, val |-> Obj(<<>>)])
    ELSE (IF JsonLoads(file.text).ok THEN JsonLoads(file.text)
          ELSE [ok |-> TRUE, val |-> Obj(<<>>)])

\* file: [path, exists, text]
load_user_profile(file) ==
    IF ~file.exists THEN [ok |-> FALSE, val |-> None]
    ELSE IF EndsWith(file.path, ExtYaml) \/ EndsWith(file.path, ExtYml)
         THEN YamlSafeLoad(file.text)
    ELSE JsonLoads(file.text)

load_job_description(file) ==
    IF ~file.exists THEN [ok |-> FALSE, val |-> None]
    ELSE [ok |-> TRUE, val |-> Str(Strip(file.text))]

\* ------------------------------------------------------------ completion client
DefaultModel == "local-gpt-oss"

\* reply is what the backend does with the request: [ok, val], ok = FALSE
\* when requests.post, response.json() or the ["response"] lookup raises
prompt_llm(prompt_text, model, reply) ==
    IF model = "gpt-4" THEN reply
    ELSE IF model = "local-gpt-oss" THEN reply
    ELSE [ok |-> TRUE, val |-> None]

\* ------------------------------------------------------------ fallback
\* format_profile_as_resume handing the profile through as it is
format_profile_as_resume_PassThrough(profile_value) ==
    IF ~IsDict(profile_value) THEN [ok |-> FALSE, val |-> None]
    ELSE [ok |-> TRUE, val |-> profile_value]

\* [ok, val]; ok = FALSE is the AttributeError of .get on a non-mapping
format_profile_as_resume(profile_value) ==
    IF ~IsDict(profile_value) THEN [ok |-> FALSE, val |-> None]
    ELSE [ok |-> TRUE,
          val |-> Obj(<<
            <<K_name, DictGet(profile_value, K_name, Str(<<>>))>>,
            <<K_contact, DictGet(profile_value, K_contact, Obj(<<>>))>>,
            <<K_professional_summary,
              DictGet(profile_value, K_professional_summary, Str(<<>>))>>,
            <<K_skills, DictGet(profile_value, K_skills, Arr(<<>>))>>,
            <<K_experience, DictGet(profile_value, K_experience, Arr(<<>>))>>,
            <<K_education, DictGet(profile_value, K_education, Arr(<<>>))>>,
            <<K_projects, DictGet(profile_value, K_projects, Arr(<<>>))>> >>)]

\* ------------------------------------------------------------ renderer
\* generate_html_resume without the template_path.exists() test
generate_html_resume_NoExistsTest(resume_data, template_name, template_exists) ==
    IF ~IsDict(resume_data)
    THEN [ok |-> FALSE, val |-> None, exc |-> "TypeError"]
    ELSE [ok |-> TRUE, val |-> [t |-> "html", v |-> <<template_name, resume_data.v>>],
          exc |-> "none"]

\* [ok, val, exc].  The template is an opaque asset: the rendered HTML is
\* kept as the template name and the substitution variables handed to it.
generate_html_resume(resume_data, template_name, template_exists) ==
    IF ~template_exists
    THEN [ok |-> FALSE, val |-> None, exc |-> "FileNotFoundError"]
    ELSE IF ~IsDict(resume_data)
    THEN [ok |-> FALSE, val |-> None, exc |-> "TypeError"]
    ELSE [ok |-> TRUE, val |-> [t |-> "html", v |-> <<template_name, resume_data.v>>],
          exc |-> "none"]

ExtPdf == <<".", "p", "d", "f">>
ExtHtml == <<".", "h", "t", "m", "l">>

SlashAt(path) == {i \in 1..Len(path) : path[i] = "/"}
Largest(S) == CHOOSE m \in S : \A k \in S : k <= m

\* str(Path(path).parent) for a relative path of plain names
ParentOf(path) ==
    IF SlashAt(path) = {} THEN <<".">> ELSE SubSeq(path, 1, Largest(SlashAt(path)) - 1)

\* every directory Path(path).parent.mkdir(parents=True) makes sure exists
Ancestors(path) == {SubSeq(path, 1, i - 1) : i \in SlashAt(path)}

\* the file system is a set of <<path, kind>>, one entry per path
WriteFile(fs, path, kind) == {e \in fs : e[1] # path} \cup {<<path, kind>>}

\* conv is what pdfkit.from_string does: "ok" writes the PDF and returns;
\* "fail" raises; "fail_partial" raises after wkhtmltopdf wrote the file.
\* [ok, ret, fs]; ok = FALSE is the error of open(html_output, 'w').
generate_pdf(html, out, conv, dirset, fs) ==
    IF conv = "ok" THEN [ok |-> TRUE, ret |-> "True", fs |-> WriteFile(fs, out, "pdf")]
    ELSE LET fs1 == IF conv = "fail_partial" THEN WriteFile(fs, out, "pdf") ELSE fs
             html_output == Replace(out, ExtPdf, ExtHtml)
         IN  IF ParentOf(html_output) = <<".">> \/ ParentOf(html_output) \in dirset
             THEN [ok |-> TRUE, ret |-> "False", fs |-> WriteFile(fs1, html_output, "html")]
             ELSE [ok |-> FALSE, ret |-> "none", fs |-> fs1]

\* ------------------------------------------------------------ inputs
MaxProfileKeys == 1
MaxDirs == 1
MaxRespPieces == 1
MaxCleanPieces == 3

RECURSIVE Concats(_, _)
Concats(pieces, n) ==
    IF n = 0 THEN {<<>>}
    ELSE LET prev == Concats(pieces, n - 1)
         IN  prev \cup {t \o q : t \in prev, q \in pieces}

\* the order json text lists the keys in
KeyOrder == <<K_name, K_contact, K_professional_summary, K_skills,
              K_experience, K_education, K_projects, K_extra>>

Quoted(s) == <<QT>> \o s \o <<QT>>

ValueText(k) ==
    CASE k = K_name -> <<QT, "a", QT>>
      [] k = K_contact -> <<"{", QT, "e", QT, ":", QT, "b", QT, "}">>
      [] k = K_professional_summary -> <<QT, "s", QT>>
      [] k = K_skills -> <<"[", QT, "1", QT, ",", QT, "2", QT, "]">>
      [] k = K_experience -> <<"[", "{", QT, "c", QT, ":", QT, "d", QT, "}", "]">>
      [] k = K_education -> <<"[", QT, "u", QT, "]">>
      [] k = K_projects -> <<"[", QT, "p", QT, "]">>
      [] OTHER -> <<"1">>

RECURSIVE MembersText(_, _, _)
MembersText(keys, i, first) ==
    IF i > Len(KeyOrder) THEN <<>>
    ELSE IF KeyOrder[i] \in keys
    THEN (IF first THEN <<>> ELSE <<",">>) \o Quoted(KeyOrder[i]) \o <<":">>
         \o ValueText(KeyOrder[i]) \o MembersText(keys, i + 1, FALSE)
    ELSE MembersText(keys, i + 1, first)

ProfileText(keys) == <<"{">> \o MembersText(keys, 1, TRUE) \o <<"}">>

AllKeys == {KeyOrder[i] : i \in 1..Len(KeyOrder)}
ProfileKeySets == {S \in SUBSET AllKeys : Cardinality(S) <= MaxProfileKeys} \cup {AllKeys}

PathJson == <<"p", ".", "j", "s", "o", "n">>
PathYaml == <<"p", ".", "y", "a", "m", "l">>
PathYml == <<"p", ".", "y", "m", "l">>
ProfilePaths == {PathJson, PathYaml, PathYml}

ProfileFiles ==
    {[path |-> PathJson, exists |-> TRUE, text |-> ProfileText(S)] : S \in ProfileKeySets}
    \cup {[path |-> PathJson, exists |-> TRUE, text |-> t] :
            t \in {<<"[", "1", "]">>, <<"{">>, YamlNameDoc}}
    \cup {[path |-> q, exists |-> FALSE, text |-> <<>>] : q \in ProfilePaths}
    \cup {[path |-> PathYaml, exists |-> TRUE, text |-> t] :
            t \in {YamlNameDoc, YamlDateDoc, YamlBadDoc}}
    \cup {[path |-> PathYml, exists |-> TRUE, text |-> t] :
            t \in {YamlNameDoc, YamlListDoc, <<>>}}

JobFiles ==
    {[exists |-> FALSE, text |-> <<>>],
     [exists |-> TRUE, text |-> <<SP, "j", SP, "d", NL>>]}

StructuresText == <<"{", QT, "t", QT, ":", "{", QT, "n", "a", "m", "e", QT, ":", QT, QT, "}", ",", QT, "n", QT, ":", "n", "u", "l", "l", "}">>
StructureFiles ==
    {[exists |-> FALSE, text |-> <<>>],
     [exists |-> TRUE, text |-> StructuresText],
     [exists |-> TRUE, text |-> <<"[", "1", "]">>],
     [exists |-> TRUE, text |-> <<"{">>]}

Templates == {<<"t">>, <<"u">>, <<"n">>}

DirNames == {<<"o">>, <<"o">> \o ExtPdf}
FileNames == {<<"r">>, <<"r">> \o ExtPdf}

RECURSIVE DirPrefixes(_)
DirPrefixes(n) ==
    IF n = 0 THEN {<<>>}
    ELSE LET prev == DirPrefixes(n - 1)
         IN  prev \cup {d \o <<"/">> \o q : d \in DirNames, q \in prev}

OutputPaths == {d \o f : d \in DirPrefixes(MaxDirs), f \in FileNames}

ApiKeys == {None, Str(<<>>), Str(<<"k">>)}

\* a fenced code block around text; sep is what separates marker and text
Wrap(text, sep) == FenceOpen \o sep \o text \o sep \o FenceClose
FenceSeps == {<<>>, <<NL>>}

ObjSkillsText == <<"{", QT, "n", "a", "m", "e", QT, ":", QT, "b", QT, ",", QT, "s", "k", "i", "l", "l", "s", QT, ":", "[", QT, "2", QT, ",", QT, "1", QT, "]", "}">>
RespPieces == {ObjSkillsText, <<"[", "1", "]">>, LitNull, <<"1">>, Quoted(<<"a">>),
               <<"x">>, <<FF>>, <<SP>>}
RespTexts == Concats(RespPieces, MaxRespPieces)
Responses == RespTexts \cup {Wrap(t, sep) : t \in RespTexts, sep \in FenceSeps}

\* what the backend can do: raise, answer with text, or answer with a
\* "response" field that is not a string
LlmReplies ==
    {[ok |-> FALSE, val |-> None]}
    \cup {[ok |-> TRUE, val |-> Str(t)] : t \in Responses}
    \cup {[ok |-> TRUE, val |-> x] : x \in {JsonLoads(ObjSkillsText).val, Num(1), None}}

Conversions == {"ok", "fail", "fail_partial"}

ObjKText == <<"{", QT, "k", QT, ":", "1", "}">>
CleanPieces == {FenceOpen, FenceClose, <<SP>>, <<FF>>, <<"1">>, <<"x">>, <<BQ>>, ObjKText}
CleanTexts == Concats(CleanPieces, MaxCleanPieces)
CleanInputs == {Str(t) : t \in CleanTexts} \cup {None, Num(1), Arr(<<Num(1)>>), Obj(<<>>)}

\* ------------------------------------------------------------ state
Unset == [t |-> "unset", v |-> 0]

VARIABLES
    pc,               \* position of the run
    api_key,          \* os.getenv("OPENAI_API_KEY") after load_dotenv()
    profile, output, template,   \* command line arguments
    user_profile, job_description, json_structure, prompt,
    ai_response, tailored_resume, html_content, success,   \* locals of main
    profile_file,     \* the file at the profile path as load_user_profile found it
    job_file,         \* the file at the job path as load_job_description found it
    structures_file,  \* resume_structures.json as get_json_structure found it
    template_found,   \* "unchecked", or what template_path.exists() returned
    conversion,       \* "none", or what pdfkit.from_string did
    dirs,             \* directories the run created
    files,            \* files the run wrote: <<path, kind>>
    calls,            \* functions called so far
    raised,           \* exceptions raised so far: [fn, exc]
    render_arg,       \* resume_data passed to generate_html_resume
    clean_in, fence_sep, plain_out, fenced_out   \* clean_response on its own

vars == <<pc, api_key, profile, output, template, user_profile, job_description,
          json_structure, prompt, ai_response, tailored_resume, html_content,
          success, profile_file, job_file, structures_file, template_found, conversion, dirs, files,
          calls, raised, render_arg, clean_in, fence_sep, plain_out, fenced_out>>

args == <<api_key, profile, output, template>>
locals == <<user_profile, job_description, json_structure, prompt, ai_response,
            tailored_resume, html_content, success>>
env == <<profile_file, job_file, structures_file, template_found, conversion, dirs, files>>
cleanvars == <<clean_in, fence_sep, plain_out, fenced_out>>

Raise(fn, exc) == raised \cup {[fn |-> fn, exc |-> exc]}

InitRest ==
    /\ user_profile = Unset /\ job_description = Unset /\ json_structure = Unset
    /\ prompt = Unset /\ ai_response = Unset /\ tailored_resume = Unset
    /\ html_content = Unset /\ success = "none"
    /\ profile_file = Unset /\ job_file = Unset
    /\ structures_file = Unset /\ template_found = "unchecked" /\ conversion = "none"
    /\ dirs = {} /\ files = {} /\ calls = {} /\ raised = {} /\ render_arg = Unset

Init ==
    /\ pc = "import"
    /\ api_key \in ApiKeys
    /\ profile \in ProfilePaths
    /\ output \in OutputPaths
    /\ template \in Templates
    /\ InitRest
    /\ clean_in = Unset /\ fence_sep = <<>> /\ plain_out = Unset /\ fenced_out = Unset

\* ------------------------------------------------------------ module import
\* module import without the test of the key
Startup_NoKeyTest ==
    /\ pc = "import"
    /\ \E wk_found \in BOOLEAN :
         IF ~wk_found
         THEN /\ raised' = Raise("pdfkit.configuration", "IOError")
              /\ pc' = "import_error"
         ELSE /\ raised' = raised
              /\ pc' = "main"
    /\ UNCHANGED <<args, locals, env, calls, render_arg, cleanvars>>

\* lines 18-29: pdfkit.configuration opens the wkhtmltopdf binary and raises
\* when it is not there; then the key is read and tested for truth.
Startup ==
    /\ pc = "import"
    /\ \E wk_found \in BOOLEAN :
         IF ~wk_found
         THEN /\ raised' = Raise("pdfkit.configuration", "IOError")
              /\ pc' = "import_error"
         ELSE IF api_key = None \/ api_key = Str(<<>>)
         THEN /\ raised' = Raise("module", "ValueError")
              /\ pc' = "import_error"
         ELSE /\ raised' = raised
              /\ pc' = "main"
    /\ UNCHANGED <<args, locals, env, calls, render_arg, cleanvars>>

\* ------------------------------------------------------------ main
MainMkdir ==
    /\ pc = "main"
    /\ \E mk_ok \in BOOLEAN :
         IF mk_ok
         THEN /\ dirs' = dirs \cup Ancestors(output)
              /\ raised' = raised
              /\ pc' = "load_profile"
         ELSE /\ dirs' = dirs
              /\ raised' = Raise("mkdir", "OSError")
              /\ pc' = "error"
    /\ UNCHANGED <<args, locals, profile_file, job_file, structures_file, template_found,
                   conversion, files, calls, render_arg, cleanvars>>

MainLoadProfile ==
    /\ pc = "load_profile"
    /\ \E f \in ProfileFiles :
         /\ f.path = profile
         /\ profile_file' = f
         /\ LET r == load_user_profile(f)
            IN  IF r.ok
                THEN /\ user_profile' = r.val
                     /\ raised' = raised
                     /\ pc' = "load_job"
                ELSE /\ user_profile' = user_profile
                     /\ raised' = Raise("load_user_profile", "Exception")
                     /\ pc' = "error"
    /\ calls' = calls \cup {"load_user_profile"}
    /\ UNCHANGED <<args, job_description, json_structure, prompt, ai_response,
                   tailored_resume, html_content, success, job_file, structures_file,
                   template_found, conversion, dirs, files, render_arg, cleanvars>>

MainLoadJob ==
    /\ pc = "load_job"
    /\ \E f \in JobFiles :
         /\ job_file' = f
         /\ LET r == load_job_description(f)
            IN  IF r.ok
                THEN /\ job_description' = r.val
                     /\ raised' = raised
                     /\ pc' = "get_structure"
                ELSE /\ job_description' = job_description
                     /\ raised' = Raise("load_job_description", "OSError")
                     /\ pc' = "error"
    /\ calls' = calls \cup {"load_job_description"}
    /\ UNCHANGED <<args, user_profile, json_structure, prompt, ai_response,
                   tailored_resume, html_content, success, profile_file, structures_file,
                   template_found, conversion, dirs, files, render_arg, cleanvars>>

\* lines 230-233: a missing result ends the run with a message
MainGetStructure ==
    /\ pc = "get_structure"
    /\ \E f \in StructureFiles :
         /\ structures_file' = f
         /\ LET r == get_json_structure(f, template)
            IN  IF ~r.ok
                THEN /\ json_structure' = json_structure
                     /\ raised' = Raise("get_json_structure", "Exception")
                     /\ pc' = "error"
                ELSE /\ json_structure' = r.val
                     /\ raised' = raised
                     /\ pc' = IF r.val = None THEN "returned" ELSE "gen_prompt"
    /\ calls' = calls \cup {"get_json_structure"}
    /\ UNCHANGED <<args, user_profile, job_description, prompt, ai_response,
                   tailored_resume, html_content, success, profile_file, job_file,
                   template_found, conversion, dirs, files, render_arg, cleanvars>>

\* line 238, outside the inner try
MainGeneratePrompt ==
    /\ pc = "gen_prompt"
    /\ LET r == generate_prompt(user_profile, job_description, json_structure)
       IN  IF r.ok
           THEN /\ prompt' = r.val
                /\ raised' = raised
                /\ pc' = "llm"
           ELSE /\ prompt' = prompt
                /\ raised' = Raise("generate_prompt", "TypeError")
                /\ pc' = "error"
    /\ calls' = calls \cup {"generate_prompt"}
    /\ UNCHANGED <<args, user_profile, job_description, json_structure, ai_response,
                   tailored_resume, html_content, success, env, render_arg, cleanvars>>

\* line 243, inside the inner try
MainPromptLlm ==
    /\ pc = "llm"
    /\ \E reply \in LlmReplies :
         LET r == prompt_llm(prompt, DefaultModel, reply)
         IN  IF r.ok
             THEN /\ ai_response' = r.val
                  /\ raised' = raised
                  /\ pc' = "clean"
             ELSE /\ ai_response' = ai_response
                  /\ raised' = Raise("prompt_llm", "Exception")
                  /\ pc' = "fallback"
    /\ calls' = calls \cup {"prompt_llm"}
    /\ UNCHANGED <<args, user_profile, job_description, json_structure, prompt,
                   tailored_resume, html_content, success, env, render_arg, cleanvars>>

\* line 244, inside the inner try
MainCleanResponse ==
    /\ pc = "clean"
    /\ LET r == clean_response(ai_response)
       IN  IF r.ok
           THEN /\ tailored_resume' = r.val
                /\ raised' = raised
                /\ pc' = "render"
           ELSE /\ tailored_resume' = tailored_resume
                /\ raised' = Raise("clean_response", "JSONDecodeError")
                /\ pc' = "fallback"
    /\ calls' = calls \cup {"clean_response"}
    /\ UNCHANGED <<args, user_profile, job_description, json_structure, prompt,
                   ai_response, html_content, success, env, render_arg, cleanvars>>

\* lines 249-254: the handler of the inner try
MainFallback ==
    /\ pc = "fallback"
    /\ LET r == format_profile_as_resume(user_profile)
       IN  IF r.ok
           THEN /\ tailored_resume' = r.val
                /\ raised' = raised
                /\ pc' = "render"
           ELSE /\ tailored_resume' = tailored_resume
                /\ raised' = Raise("format_profile_as_resume", "AttributeError")
                /\ pc' = "error"
    /\ calls' = calls \cup {"format_profile_as_resume"}
    /\ UNCHANGED <<args, user_profile, job_description, json_structure, prompt,
                   ai_response, html_content, success, env, render_arg, cleanvars>>

\* line 259
MainGenerateHtml ==
    /\ pc = "render"
    /\ \E found \in BOOLEAN :
         /\ template_found' = IF found THEN "yes" ELSE "no"
         /\ LET r == generate_html_resume(tailored_resume, template, found)
            IN  IF r.ok
                THEN /\ html_content' = r.val
                     /\ raised' = raised
                     /\ pc' = "pdf"
                ELSE /\ html_content' = html_content
                     /\ raised' = Raise("generate_html_resume", r.exc)
                     /\ pc' = "error"
    /\ render_arg' = tailored_resume
    /\ calls' = calls \cup {"generate_html_resume"}
    /\ UNCHANGED <<args, user_profile, job_description, json_structure, prompt,
                   ai_response, tailored_resume, success, profile_file, job_file,
                   structures_file, conversion, dirs, files, cleanvars>>

\* lines 264-269
MainGeneratePdf ==
    /\ pc = "pdf"
    /\ \E conv \in Conversions :
         /\ conversion' = conv
         /\ LET r == generate_pdf(html_content, output, conv, dirs, files)
            IN  /\ files' = r.fs
                /\ IF r.ok
                   THEN /\ success' = r.ret
                        /\ raised' = raised
                        /\ pc' = "done"
                   ELSE /\ success' = success
                        /\ raised' = Raise("generate_pdf", "OSError")
                        /\ pc' = "error"
    /\ calls' = calls \cup {"generate_pdf"}
    /\ UNCHANGED <<args, user_profile, job_description, json_structure, prompt,
                   ai_response, tailored_resume, html_content, profile_file, job_file,
                   structures_file, template_found, dirs, render_arg, cleanvars>>

Next ==
    \/ Startup
    \/ MainMkdir
    \/ MainLoadProfile
    \/ MainLoadJob
    \/ MainGetStructure
    \/ MainGeneratePrompt
    \/ MainPromptLlm
    \/ MainCleanResponse
    \/ MainFallback
    \/ MainGenerateHtml
    \/ MainGeneratePdf

Spec == Init /\ [][Next]_vars

\* ------------------------------------------------------------ clean_response alone
InitClean ==
    /\ pc = "clean_plain"
    /\ clean_in \in CleanInputs
    /\ fence_sep \in FenceSeps
    /\ plain_out = Unset /\ fenced_out = Unset
    /\ api_key = Str(<<"k">>) /\ profile = PathJson /\ template = <<"t">>
    /\ output = <<"r">> \o ExtPdf
    /\ InitRest

ApplyClean ==
    /\ pc = "clean_plain"
    /\ plain_out' = clean_response(clean_in)
    /\ pc' = IF IsStr(clean_in) THEN "clean_fenced" ELSE "clean_done"
    /\ UNCHANGED <<args, locals, env, calls, raised, render_arg, clean_in, fence_sep,
                   fenced_out>>

ApplyCleanFenced ==
    /\ pc = "clean_fenced"
    /\ fenced_out' = clean_response(Str(Wrap(clean_in.v, fence_sep)))
    /\ pc' = "clean_done"
    /\ UNCHANGED <<args, locals, env, calls, raised, render_arg, clean_in, fence_sep,
                   plain_out>>

NextClean == ApplyClean \/ ApplyCleanFenced

SpecClean == InitClean /\ [][NextClean]_vars

\* ============================================================ claims
ResumeKeys == <<K_name, K_contact, K_professional_summary, K_skills,
                K_experience, K_education, K_projects>>
EmptyValues == <<Str(<<>>), Obj(<<>>), Str(<<>>), Arr(<<>>), Arr(<<>>), Arr(<<>>), Arr(<<>>)>>

Raised(fn) == \E e \in raised : e.fn = fn
Called(fn) == fn \in calls

\* x is the fallback reshaping of mapping d: exactly the seven keys, each with
\* the profile's value when the key is there and the empty value when not
IsReshapingOf(x, d) ==
    /\ IsDict(x)
    /\ Len(x.v) = Len(ResumeKeys)
    /\ \A i \in 1..Len(ResumeKeys) :
         /\ x.v[i][1] = ResumeKeys[i]
         /\ IF \E j \in 1..Len(d.v) : d.v[j][1] = ResumeKeys[i]
            THEN \E j \in 1..Len(d.v) : d.v[j] = x.v[i]
            ELSE x.v[i][2] = EmptyValues[i]

\* C1: once generate_prompt, prompt_llm or clean_response has raised, the run
\* does not abort: it reaches the renderer, and what the renderer is handed is
\* the fallback reshaping of the profile.
C1_ThreeStagesAbsorbed ==
    ((Raised("generate_prompt") \/ Raised("prompt_llm") \/ Raised("clean_response"))
      /\ pc \notin {"fallback", "render"})
    => /\ Called("generate_html_resume")
       /\ IsDict(user_profile)
       /\ IsReshapingOf(render_arg, user_profile)

\* C2: when prompt_llm raised and the profile is a mapping, the tailored resume
\* (and what the renderer is handed) is the seven-key reshaping of the profile:
\* the profile's value per key present, the empty value per key absent, no
\* other field.
C2_FallbackEqualsReshapedProfile ==
    (Raised("prompt_llm") /\ IsDict(user_profile) /\ pc # "fallback")
    => /\ IsReshapingOf(tailored_resume, user_profile)
       /\ pc # "render" => (Called("generate_html_resume") /\ render_arg = tailored_resume)

C2_Witness ==
    /\ Raised("prompt_llm")
    /\ IsDict(user_profile)
    /\ HasKey(user_profile, K_extra)
    /\ HasKey(user_profile, K_skills)
    /\ Called("generate_html_resume")
    /\ render_arg = tailored_resume
    /\ ~HasKey(render_arg, K_extra)
    /\ DictGet(render_arg, K_skills, None) = DictGet(user_profile, K_skills, Unset)

\* the schema table was read, is a mapping, and has no entry for the template
SchemaNameAbsent ==
    /\ structures_file # Unset
    /\ structures_file.exists
    /\ JsonLoads(structures_file.text).ok
    /\ IsDict(JsonLoads(structures_file.text).val)
    /\ ~HasKey(JsonLoads(structures_file.text).val, template)

\* C3: when the schema name is absent from the lookup table, the run ends
\* there: prompt_llm is never called, nothing is rendered, generate_pdf is
\* never called and no file is written.
C3_AbsentSchemaStopsBeforeNetwork ==
    SchemaNameAbsent
    => /\ pc = "returned"
       /\ ~Called("prompt_llm")
       /\ ~Called("generate_html_resume")
       /\ ~Called("generate_pdf")
       /\ files = {}

C3_Witness ==
    /\ SchemaNameAbsent
    /\ json_structure = None
    /\ pc = "returned"
    /\ user_profile # Unset
    /\ job_description # Unset

\* C4: when the template file does not exist, generate_pdf is never called and
\* no output file is written; the run ends in the top-level handler.
C4_MissingTemplateStopsBeforePdf ==
    template_found = "no"
    => /\ pc = "error"
       /\ ~Called("generate_pdf")
       /\ conversion = "none"
       /\ files = {}

C4_Witness ==
    /\ template_found = "no"
    /\ Raised("prompt_llm")
    /\ IsDict(tailored_resume)
    /\ [fn |-> "generate_html_resume", exc |-> "FileNotFoundError"] \in raised

\* the output path with its .pdf suffix replaced by .html
SiblingHtml(path) == SliceDropLast(path, Len(ExtPdf)) \o ExtHtml

\* C5: when the conversion failed, generate_pdf has returned False and the
\* HTML is in a file other than the output path; for an output path ending in
\* .pdf that file is the path with only the suffix changed.
C5_HtmlAtSiblingPath ==
    (conversion \in {"fail", "fail_partial"})
    => /\ pc = "done"
       /\ success = "False"
       /\ <<output, "html">> \notin files
       /\ \E e \in files : e[2] = "html"
       /\ EndsWith(output, ExtPdf) => <<SiblingHtml(output), "html">> \in files

\* C6: clean_response gives the same outcome for a text and for that text
\* inside a fenced code block, whatever the text; a non-string comes back
\* unchanged.
C6_FenceMakesNoDifference ==
    pc = "clean_done"
    => IF IsStr(clean_in)
       THEN fenced_out = plain_out
       ELSE plain_out = [ok |-> TRUE, val |-> clean_in]

\* the text, once trimmed, carries no marker of its own at either end, and the
\* whitespace trimmed from its ends is whitespace json.loads skips too
CarriesNoMarker(text) ==
    /\ ~StartsWith(Strip(text), FenceOpen)
    /\ ~EndsWith(Strip(text), FenceClose)

EdgesAreJsonWhitespace(text) ==
    \A i \in 1..Len(text) :
        (i <= Len(text) - Len(LStrip(text)) \/ i > Len(RStrip(text)))
        => text[i] \in JsonWhitespace

\* C6 (amended): the same, for every text that carries no marker of its own
\* at its ends and is surrounded only by whitespace JSON accepts.
C6_FenceMakesNoDifferenceOnBareText ==
    pc = "clean_done"
    => IF IsStr(clean_in)
       THEN (CarriesNoMarker(clean_in.v) /\ EdgesAreJsonWhitespace(clean_in.v))
            => fenced_out = plain_out
       ELSE plain_out = [ok |-> TRUE, val |-> clean_in]

C6_Witness ==
    /\ pc = "clean_done"
    /\ IsStr(clean_in)
    /\ Len(clean_in.v) > Len(Strip(clean_in.v))
    /\ CarriesNoMarker(clean_in.v) /\ EdgesAreJsonWhitespace(clean_in.v)
    /\ fence_sep = <<NL>>
    /\ fenced_out = plain_out
    /\ plain_out.ok
    /\ IsDict(plain_out.val)

\* the texts that are one JSON object
ObjectPayloads == {t \in RespTexts : JsonLoads(t).ok /\ IsDict(JsonLoads(t).val)}

\* the response is payload t, bare or inside a fenced code block
Carries(t) ==
    \/ ai_response = Str(t)
    \/ \E sep \in FenceSeps : ai_response = Str(Wrap(t, sep))

\* C7: when the backend answered with a JSON object, bare or fenced, the
\* tailored resume and what the renderer is handed are that object as parsed,
\* key for key in the response's order; the fallback is not used.
C7_ValidResponseReachesRenderer ==
    \A t \in ObjectPayloads :
        (Carries(t) /\ pc # "clean")
        => /\ tailored_resume = JsonLoads(t).val
           /\ ~Called("format_profile_as_resume")
           /\ pc # "render" => (Called("generate_html_resume")
                                /\ render_arg = JsonLoads(t).val)
           /\ pc \in {"pdf", "done"} => html_content.v[2] = JsonLoads(t).val.v

C7_Witness ==
    /\ pc = "done"
    /\ \E sep \in FenceSeps : ai_response = Str(Wrap(ObjSkillsText, sep))
    /\ IsDict(user_profile)
    /\ DictGet(user_profile, K_skills, None) = Arr(<<Str(<<"1">>), Str(<<"2">>)>>)
    /\ DictGet(render_arg, K_skills, None) = Arr(<<Str(<<"2">>), Str(<<"1">>)>>)
    /\ PairsGet(html_content.v[2], K_skills, None) = Arr(<<Str(<<"2">>), Str(<<"1">>)>>)

\* C8: with the key variable absent the run never gets past the import: no
\* input is loaded, no directory made, no function of the pipeline called, no
\* file written.
C8_NoKeyNoPipeline ==
    api_key = None
    => /\ pc \in {"import", "import_error"}
       /\ calls = {}
       /\ dirs = {}
       /\ files = {}
       /\ user_profile = Unset /\ job_description = Unset

C8_Witness ==
    /\ api_key = None
    /\ pc = "import_error"
    /\ [fn |-> "module", exc |-> "ValueError"] \in raised

\* the profile file is missing, or its text does not parse in the format its
\* extension declares
ProfileUnloadable ==
    /\ profile_file # Unset
    /\ \/ ~profile_file.exists
       \/ IF EndsWith(profile_file.path, ExtYaml) \/ EndsWith(profile_file.path, ExtYml)
          THEN profile_file.text \notin {YamlNameDoc, YamlDateDoc, YamlListDoc, <<>>}
          ELSE ~JsonLoads(profile_file.text).ok

JobUnloadable == job_file # Unset /\ ~job_file.exists

\* C9: after a failure of the input loader the run, once over, has still
\* written an output document.
C9_LoaderFailureAbsorbed ==
    ((ProfileUnloadable \/ JobUnloadable) /\ pc \in {"error", "returned", "done"})
    => pc = "done" /\ files # {}

\* C9 (amended): a failure of the input loader ends the run in the top-level
\* handler: the backend is not called, nothing is rendered, no file is written.
C9_LoaderFailureAborts ==
    (ProfileUnloadable \/ JobUnloadable)
    => /\ pc = "error"
       /\ ~Called("get_json_structure")
       /\ ~Called("prompt_llm")
       /\ ~Called("format_profile_as_resume")
       /\ ~Called("generate_html_resume")
       /\ ~Called("generate_pdf")
       /\ files = {}

C9_Witness ==
    /\ ProfileUnloadable
    /\ profile_file.exists
    /\ Raised("load_user_profile")
    /\ pc = "error"

\* C10: a run in which both inputs loaded (the profile a mapping), the schema
\* name was found and the template file exists ends with exactly one output
\* file written, whatever the backend did: raised, or answered with any text.
C10_ExactlyOneArtifact ==
    (/\ pc \in {"error", "done"}
     /\ IsDict(user_profile) /\ job_description # Unset
     /\ json_structure \notin {Unset, None}
     /\ Raised("prompt_llm") \/ IsStr(ai_response)
     /\ template_found = "yes")
    => pc = "done" /\ Cardinality(files) = 1

====
